---- MODULE Spec2Model ----
(***************************************************************************)
(* Model of bidsphysio/pmu2bidsphysio.py: the Siemens PMU log decoder      *)
(* (readpmu, readVE11Cpmu) and the conversion orchestrator (pmu2bids).     *)
(*                                                                         *)
(* Python strings are sequences of one-character strings, so that          *)
(* endswith, `in`, split, rstrip, int() and the two regular expressions    *)
(* are computed character by character, as the interpreter computes them.  *)
(***************************************************************************)
EXTENDS Integers, Sequences, FiniteSets

(***************************************************************************)
(* Python built-ins used by the program                                    *)
(***************************************************************************)

\* the characters str.rstrip(), str.split() and int() treat as white space
Whitespace == {" ", "\n", "\t", "\r"}

Digits == {"0", "1", "2", "3", "4", "5", "6", "7", "8", "9"}

\* the class [A-Z] of the pattern 'LOGVERSION_([A-Z]*)'
Upper == {"A", "B", "C", "D", "E", "F", "G", "H", "I", "J", "K", "L", "M",
          "N", "O", "P", "Q", "R", "S", "T", "U", "V", "W", "X", "Y", "Z"}

DigitVal(c) ==
    CASE c = "0" -> 0 [] c = "1" -> 1 [] c = "2" -> 2 [] c = "3" -> 3
      [] c = "4" -> 4 [] c = "5" -> 5 [] c = "6" -> 6 [] c = "7" -> 7
      [] c = "8" -> 8 [] c = "9" -> 9

Min(S) == CHOOSE x \in S : \A y \in S : x <= y

Max(S) == CHOOSE x \in S : \A y \in S : y <= x

\* str[from-1:] of Python, with 1-based from
From(str, from) == SubSeq(str, from, Len(str))

\* str.endswith(suffix)
endswith(str, suffix) ==
    /\ Len(str) >= Len(suffix)
    /\ SubSeq(str, Len(str) - Len(suffix) + 1, Len(str)) = suffix

\* str.find(sub, start-1) + 1: the first place >= start where sub occurs, 0 if none
find(str, sub, start) ==
    LET at == {i \in start..(Len(str) - Len(sub) + 1) :
                   SubSeq(str, i, i + Len(sub) - 1) = sub}
    IN  IF at = {} THEN 0 ELSE Min(at)

\* sub in str
contains(str, sub) == find(str, sub, 1) # 0

\* str.rstrip()
rstrip(str) ==
    LET keep == {i \in 1..Len(str) : str[i] \notin Whitespace}
    IN  IF keep = {} THEN <<>> ELSE SubSeq(str, 1, Max(keep))

\* str.strip()
strip(str) ==
    LET keep == {i \in 1..Len(str) : str[i] \notin Whitespace}
    IN  IF keep = {} THEN <<>> ELSE SubSeq(str, Min(keep), Max(keep))

\* str.split(sep) for a one-character sep: every sep cuts, empty pieces are kept
RECURSIVE split_sep(_, _)
split_sep(str, sep) ==
    LET i == find(str, <<sep>>, 1)
    IN  IF i = 0 THEN <<str>>
        ELSE <<SubSeq(str, 1, i - 1)>> \o split_sep(From(str, i + 1), sep)

\* str.split(): cut at runs of white space, no empty pieces
RECURSIVE split_ws(_)
split_ws(str) ==
    LET ink == {i \in 1..Len(str) : str[i] \notin Whitespace}
    IN  IF ink = {} THEN <<>>
        ELSE LET b  == Min(ink)
                 ws == {i \in b..Len(str) : str[i] \in Whitespace}
                 e  == IF ws = {} THEN Len(str) + 1 ELSE Min(ws)
             IN  <<SubSeq(str, b, e - 1)>> \o split_ws(From(str, e))

\* the digits of an int() literal after its sign: digits, single underscores between them
int_body(str) ==
    LET t == strip(str)
    IN  IF t # <<>> /\ t[1] \in {"+", "-"} THEN Tail(t) ELSE t

\* int(str) does not raise ValueError
int_ok(str) ==
    LET b == int_body(str)
    IN  /\ b # <<>>
        /\ \A i \in 1..Len(b) : b[i] \in Digits \cup {"_"}
        /\ b[1] \in Digits
        /\ b[Len(b)] \in Digits
        /\ \A i \in 1..(Len(b) - 1) : ~(b[i] = "_" /\ b[i + 1] = "_")

RECURSIVE digits_value(_, _)
digits_value(b, acc) ==
    IF b = <<>> THEN acc
    ELSE IF Head(b) = "_" THEN digits_value(Tail(b), acc)
    ELSE digits_value(Tail(b), 10 * acc + DigitVal(Head(b)))

\* int(str), where int_ok(str)
int(str) ==
    LET t == strip(str)
        m == digits_value(int_body(str), 0)
    IN  IF t[1] = "-" THEN 0 - m ELSE m

\* float('NaN') and an int, as elements of one list
NaN == [nan |-> TRUE, v |-> 0]

Num(n) == [nan |-> FALSE, v |-> n]

\* a raised exception and a returned value, as the outcome of a call
Raise(e) == [exc |-> e, val |-> <<>>]

Return(v) == [exc |-> "None", val |-> v]

(***************************************************************************)
(* Program constants                                                       *)
(***************************************************************************)

m5002 == <<"5","0","0","2">>

m6002 == <<"6","0","0","2">>

LOGVERSION_ == <<"L","O","G","V","E","R","S","I","O","N","_">>

Unknown == <<"U","n","k","n","o","w","n">>

PULS == <<"P","U","L","S">>

RESP == <<"R","E","S","P">>

TRIGGER == <<"T","R","I","G","G","E","R">>

cardiac == <<"c","a","r","d","i","a","c">>

respiratory == <<"r","e","s","p","i","r","a","t","o","r","y">>

trigger == <<"t","r","i","g","g","e","r">>

MPCUTimeTag == <<"M","P","C","U","T","i","m","e">>

MDHTimeTag == <<"M","D","H","T","i","m","e">>

LogStart == <<"L","o","g","S","t","a","r","t">>

LogStop == <<"L","o","g","S","t","o","p">>

sfx_gz == <<".","g","z">>

sfx_nii == <<".","n","i","i">>

sfx_bold == <<"_","b","o","l","d">>

sfx_physio == <<"_","p","h","y","s","i","o">>

\* a variant of the list with '_physio' checked first
mystrs_physio_first == <<sfx_physio, sfx_gz, sfx_nii, sfx_bold>>

\* the list of line 118
mystrs == <<sfx_gz, sfx_nii, sfx_bold, sfx_physio>>

knownVersions == <<"VE11C">>

sampling_rate == 400

\* "no exception" / "no version requested"
None == "None"

(***************************************************************************)
(* The files readVE11Cpmu is given.  A path stands for the file it names:  *)
(* open(path) is the list of its raw lines, each with its newline.         *)
(*   form "VE11C":   a first line with two 5002...6002 regions followed by *)
(*                   the sample tokens joined by single spaces, then the   *)
(*                   trailer lines;                                        *)
(*   form "lines":   any other text, given line by line in `tail`;         *)
(*   form "missing": no such file.                                         *)
(***************************************************************************)

Pre == <<"1"," ","8"," ","2","0"," ","2"," ">>

TrigSeg == <<" ","T","R","I","G","G","E","R","M","E","T","H","O","D"," ","1","0"," ">>

LOGVERSION == <<"L","O","G","V","E","R","S","I","O","N">>

\* str.join: the pieces with sep between them
RECURSIVE join(_, _)
join(pieces, sep) ==
    IF pieces = <<>> THEN <<>>
    ELSE IF Len(pieces) = 1 THEN pieces[1]
    ELSE pieces[1] \o <<sep>> \o join(Tail(pieces), sep)

\* a trailer line "<sub><tag>:  <val>"
TimeLine(sub, tag, val) == [sub |-> sub, tag |-> tag, val |-> val]

LineText(l) == l.sub \o l.tag \o <<":"," "," ">> \o l.val

\* the first region of the header: " LOGVERSION_<type><post>", or " LOGVERSION<post>"
Seg1(p) ==
    <<" ">> \o (IF p.marker THEN LOGVERSION_ \o p.type ELSE LOGVERSION) \o p.post

FirstLine(p) ==
    Pre \o m5002 \o Seg1(p) \o m6002 \o <<" ">> \o m5002 \o TrigSeg \o m6002
        \o join(p.body, " ")

VE11CFile(marker, type, post, body, tail) ==
    [form |-> "VE11C", marker |-> marker, type |-> type, post |-> post,
     body |-> body, tail |-> tail]

TextFile(lines) ==
    [form |-> "lines", marker |-> FALSE, type |-> <<>>, post |-> <<>>,
     body |-> <<>>, tail |-> lines]

MissingFile ==
    [form |-> "missing", marker |-> FALSE, type |-> <<>>, post |-> <<>>,
     body |-> <<>>, tail |-> <<>>]

\* open(physio_file) raises
open_fails(physio_file) == physio_file.form = "missing"

\* the lines `for line in open(physio_file)` yields
open(physio_file) ==
    IF physio_file.form = "VE11C"
    THEN <<FirstLine(physio_file) \o <<"\n">> >>
         \o [n \in 1..Len(physio_file.tail) |->
                LineText(physio_file.tail[n]) \o <<"\n">>]
    ELSE [n \in 1..Len(physio_file.tail) |-> physio_file.tail[n] \o <<"\n">>]

(***************************************************************************)
(* readVE11Cpmu                                                            *)
(***************************************************************************)

\* re.split('5002(.*?)6002', str): the text before each match, then its group
RECURSIVE re_split(_)
re_split(str) ==
    LET i == find(str, m5002, 1)
        j == IF i = 0 THEN 0 ELSE find(str, m6002, i + Len(m5002))
    IN  IF i = 0 \/ j = 0 THEN <<str>>
        ELSE <<SubSeq(str, 1, i - 1), SubSeq(str, i + Len(m5002), j - 1)>>
             \o re_split(From(str, j + Len(m6002)))

\* re.search('LOGVERSION_([A-Z]*)', str): whether it matched, and group(1)
re_search(str) ==
    LET i == find(str, LOGVERSION_, 1)
    IN  IF i = 0 THEN [matched |-> FALSE, group1 |-> <<>>]
        ELSE LET from == i + Len(LOGVERSION_)
                 stop == {k \in from..Len(str) : str[k] \notin Upper}
                 e    == IF stop = {} THEN Len(str) + 1 ELSE Min(stop)
             IN  [matched |-> TRUE, group1 |-> SubSeq(str, from, e - 1)]

\* a variant without the default
get_physio_type_no_default(seg) == re_search(seg).group1

\* the try/except of lines 226-231: None.group raises AttributeError
get_physio_type(seg) ==
    LET m == re_search(seg)
    IN  IF m.matched THEN m.group1 ELSE Unknown

\* a variant that keeps the 5003
keep_through_5003(raw_signal) ==
    LET at == {i \in 1..Len(raw_signal) : raw_signal[i] = 5003}
    IN  IF at = {} THEN raw_signal ELSE SubSeq(raw_signal, 1, Min(at))

\* lines 245-248: raw_signal[:raw_signal.index(5003)], the whole list on ValueError
keep_up_to_5003(raw_signal) ==
    LET at == {i \in 1..Len(raw_signal) : raw_signal[i] = 5003}
    IN  IF at = {} THEN raw_signal ELSE SubSeq(raw_signal, 1, Min(at) - 1)

\* a variant that replaces "trigger on" only
replace_trigger_on_only(v) == IF v = 5000 THEN NaN ELSE Num(v)

\* lines 254-255
replace_trigger(v) == IF v = 5000 \/ v = 6000 THEN NaN ELSE Num(v)

\* one `if '<tag>' in l:` block of the loop of line 262, T the list it fills
time_line(l, tag, T) ==
    IF ~contains(l, tag) THEN Return(T)
    ELSE LET ls == split_ws(l)
         IN  IF contains(l, LogStart) \/ contains(l, LogStop)
             THEN IF Len(ls) < 2 THEN Raise("IndexError")
                  ELSE IF ~int_ok(ls[2]) THEN Raise("ValueError")
                  ELSE IF contains(l, LogStart)
                       THEN Return(<<int(ls[2]), T[2]>>)
                       ELSE Return(<<T[1], int(ls[2])>>)
             ELSE Return(T)

\* the loop of lines 262-274: <<MPCUTime, MDHTime>> at its end
RECURSIVE get_timing(_, _, _)
get_timing(lines, MPCUTime, MDHTime) ==
    IF lines = <<>> THEN Return(<<MPCUTime, MDHTime>>)
    ELSE LET a == time_line(Head(lines), MPCUTimeTag, MPCUTime)
         IN  IF a.exc # None THEN a
             ELSE LET b == time_line(Head(lines), MDHTimeTag, MDHTime)
                  IN  IF b.exc # None THEN b
                      ELSE get_timing(Tail(lines), a.val, b.val)

\* a variant that returns the other clock
returned_MPCUTime(times) == times[1]

\* the list line 276 returns, of <<MPCUTime, MDHTime>>
returned_time(times) == times[2]

readVE11Cpmu(physio_file) ==
    IF open_fails(physio_file) THEN Raise("FileNotFoundError")
    ELSE
    LET raw   == open(physio_file)
        lines == [n \in 1..Len(raw) |-> rstrip(raw[n])]
    IN
    IF Len(lines) = 0 THEN Raise("IndexError")
    ELSE
    LET s == re_split(lines[1])
    IN
    IF Len(s) < 2 THEN Raise("IndexError")
    ELSE
    LET physio_type == get_physio_type(s[2])
    IN
    IF Len(s) < 5 THEN Raise("IndexError")
    ELSE
    LET split  == split_sep(s[5], " ")
        tokens == IF split[1] = <<>> THEN Tail(split) ELSE split
    IN
    IF \E n \in 1..Len(tokens) : ~int_ok(tokens[n]) THEN Raise("ValueError")
    ELSE
    LET raw_signal    == keep_up_to_5003([n \in 1..Len(tokens) |-> int(tokens[n])])
        physio_signal == [n \in 1..Len(raw_signal) |-> replace_trigger(raw_signal[n])]
        times         == get_timing(Tail(lines), <<0, 0>>, <<0, 0>>)
    IN
    IF times.exc # None THEN times
    ELSE Return(<<physio_type, returned_time(times.val), sampling_rate, physio_signal>>)

(***************************************************************************)
(* readpmu                                                                 *)
(***************************************************************************)

\* lines 161-164: the version is one readpmu accepts
version_accepted(softwareVersion) ==
    (\E n \in 1..Len(knownVersions) : knownVersions[n] = softwareVersion)
        \/ softwareVersion = None

\* line 168
versionsToTest(softwareVersion) ==
    IF softwareVersion # None THEN <<softwareVersion>> ELSE knownVersions

\* a variant that catches the ValueError of int() and index() only
caught_value_errors_only(exc) == exc = "ValueError"

\* line 177: the bare `except:` catches whatever the attempt raised
caught(exc) == TRUE

(***************************************************************************)
(* pmu2bids                                                                *)
(***************************************************************************)

\* a variant with the 'TRIGGER' rule first
get_physio_label_trigger_first(physio_type) ==
    IF contains(physio_type, TRIGGER) THEN trigger
    ELSE IF contains(physio_type, PULS) THEN cardiac
    ELSE IF contains(physio_type, RESP) THEN respiratory
    ELSE physio_type

\* lines 93-103
get_physio_label(physio_type) ==
    IF contains(physio_type, PULS) THEN cardiac
    ELSE IF contains(physio_type, RESP) THEN respiratory
    ELSE IF contains(physio_type, TRIGGER) THEN trigger
    ELSE physio_type

\* bp.physiosignal(label=, units=, samples_per_second=, t_start=, signal=)
physiosignal(label, units, samples_per_second, t_start, signal) ==
    [label |-> label, units |-> units, samples_per_second |-> samples_per_second,
     t_start |-> t_start, signal |-> signal]

\* physiodata.append_signal
append_signal(signals, signal) == Append(signals, signal)

\* physiodata.labels()
labels(signals) == [n \in 1..Len(signals) |-> signals[n].label]

\* a variant that cuts whenever the suffix occurs anywhere in the prefix
strip_suffix_anywhere(prefix, mystr) ==
    IF contains(prefix, mystr)
    THEN SubSeq(prefix, 1, Len(prefix) - Len(mystr))
    ELSE prefix

\* line 119
strip_suffix(prefix, mystr) ==
    IF endswith(prefix, mystr)
    THEN SubSeq(prefix, 1, Len(prefix) - Len(mystr))
    ELSE prefix

\* a variant that looks at the last label only
has_trigger_last_only(signals) ==
    signals # <<>> /\ signals[Len(signals)].label = trigger

\* line 122: 'trigger' in physio.labels()
has_trigger(signals) ==
    \E n \in 1..Len(labels(signals)) : labels(signals)[n] = trigger

(***************************************************************************)
(* State                                                                   *)
(***************************************************************************)

VARIABLES
    physio_files,   \* pmu2bids' first argument: [str |-> path] or [list |-> paths]
    prefix_arg,     \* pmu2bids' second argument, as passed
    bids_prefix,    \* the local bids_prefix
    pc,             \* where the call of pmu2bids is
    f,              \* the place in physio_files of the loop of line 89
    sv,             \* the place in versionsToTest of the loop of line 171
    tried,          \* the versions readpmu has attempted for the current file
    ret,            \* what the last call of readpmu returned
    physio,         \* the signals of the physiodata object
    mystr,          \* the place in the list of line 118
    saved,          \* the calls of save_to_bids / save_to_bids_with_trigger made
    raised          \* the exception that left pmu2bids, None if none

vars == <<physio_files, prefix_arg, bids_prefix, pc, f, sv, tried, ret, physio,
          mystr, saved, raised>>

\* the input files, in order, whichever way they were passed
files_of(arg) == IF "str" \in DOMAIN arg THEN <<arg.str>> ELSE arg.list

InitWith(FileArgs, Prefixes) ==
    /\ physio_files \in FileArgs
    /\ prefix_arg \in Prefixes
    /\ bids_prefix = prefix_arg
    /\ pc = "enter"
    /\ f = 0
    /\ sv = 0
    /\ tried = <<>>
    /\ ret = Return(<<>>)
    /\ physio = <<>>
    /\ mystr = 0
    /\ saved = <<>>
    /\ raised = None

(***************************************************************************)
(* The inputs the model runs the program on                                *)
(***************************************************************************)

\* sample tokens of a first line, none to MaxTokens of them
MaxTokens == 3

\* trailer lines of a file, none to MaxLines of them
MaxLines == 2

\* files in one call of pmu2bids
MaxFiles == 3

\* suffix pieces put after a stem to make an output prefix
MaxPieces == 3

t7 == <<"7">>

t100 == <<"1","0","0">>

t200 == <<"2","0","0">>

t300 == <<"3","0","0">>

t999 == <<"9","9","9">>

t5000 == <<"5","0","0","0">>

t6000 == <<"6","0","0","0">>

t5003 == <<"5","0","0","3">>

tx == <<"x">>

\* the empty token a doubled, leading or trailing space makes
tEmpty == <<>>

TokenSet == {tEmpty, t7, t5000, t6000, t5003, tx}

SeqsUpTo(S, n) == UNION {[1..k -> S] : k \in 0..n}

\* the body of spec section 8: ' 100 200 5000 300 5003 999'
ExampleBody == <<tEmpty, t100, t200, t5000, t300, t5003, t999>>

Bodies == SeqsUpTo(TokenSet, MaxTokens) \cup {ExampleBody}

v47 == <<"4","7">>

v59 == <<"5","9">>

v31 == <<"3","1">>

v43 == <<"4","3">>

v53 == <<"5","3">>

vx9 == <<"x","9">>

StatTag == <<"E","C","G"," ","F","r","e","q"," ","P","e","r">>

TailLines ==
    { TimeLine(LogStart, MDHTimeTag, v47),  TimeLine(LogStop, MDHTimeTag, v59),
      TimeLine(LogStart, MPCUTimeTag, v31), TimeLine(LogStop, MPCUTimeTag, v43),
      TimeLine(LogStart, MDHTimeTag, v53),  TimeLine(<<>>, StatTag, v31),
      TimeLine(<<>>, MDHTimeTag, v43),      TimeLine(LogStart, MDHTimeTag, <<>>),
      TimeLine(LogStop, MDHTimeTag, vx9),   TimeLine(LogStop, MPCUTimeTag, vx9) }

Tails == SeqsUpTo(TailLines, MaxLines)

StdTail == << TimeLine(<<>>, StatTag, v31),
              TimeLine(LogStart, MDHTimeTag, v47), TimeLine(LogStop, MDHTimeTag, v59),
              TimeLine(LogStart, MPCUTimeTag, v31), TimeLine(LogStop, MPCUTimeTag, v43) >>

PULSTRIGGER == PULS \o TRIGGER

RESPTRIGGER == RESP \o TRIGGER

PULSRESP == PULS \o RESP

EXT == <<"E","X","T">>

EXTTRIGGER == EXT \o TRIGGER

\* the tokens after 'LOGVERSION_'
Types == {PULS, RESP, TRIGGER, PULSTRIGGER, RESPTRIGGER, PULSRESP, EXT, EXTTRIGGER, <<>>}

\* what follows the type in the region; none begins with a capital letter
Posts == {<<>>, <<" ","3"," ">>, <<"_","1"," ">>, <<"x"," ">>}

Headers ==
    {[marker |-> TRUE, type |-> t, post |-> p] : t \in Types, p \in Posts}
        \cup {[marker |-> FALSE, type |-> <<>>, post |-> p] :
                  p \in {<<>>, <<" ","1","0","2"," ">>}}

StdPost == <<" ","3"," ">>

NoMarkers == <<"1"," ","8"," ","2","0"," ","2"," ","7"," ","7"," ","5","0","0","3">>

OneRegion == m5002 \o <<" ">> \o LOGVERSION_ \o PULS \o <<" ">> \o m6002
                 \o <<" ","7"," ","5","0","0","3">>

OpenRegion == m5002 \o <<" ">> \o LOGVERSION_ \o PULS \o <<" ","7"," ","5","0","0","3">>

\* a third region ends the sample segment, which then ends with a space
ThreeRegions == Pre \o m5002 \o <<" ">> \o LOGVERSION_ \o RESP \o <<" ">> \o m6002
                    \o <<" ">> \o m5002 \o TrigSeg \o m6002 \o <<" ","7"," ">>
                    \o m5002 \o <<" ","x"," ">> \o m6002 \o <<" ","7"," ","5","0","0","3">>

\* files no version reads
BadFiles ==
    { MissingFile, TextFile(<<>>), TextFile(<< <<>> >>), TextFile(<<NoMarkers>>),
      TextFile(<<OneRegion, LineText(TimeLine(LogStart, MDHTimeTag, v47))>>),
      TextFile(<<OpenRegion>>), TextFile(<<ThreeRegions>>) }

\* one dimension of the file varies at a time
BodyFiles == {VE11CFile(TRUE, PULS, StdPost, b, StdTail) : b \in Bodies}

HeaderFiles ==
    {VE11CFile(h.marker, h.type, h.post, b, <<>>) :
         h \in Headers, b \in {ExampleBody, <<>>}}

TailFiles ==
    {VE11CFile(h.marker, h.type, h.post, <<tEmpty, t7, t5003>>, tl) :
         h \in {[marker |-> TRUE, type |-> RESP, post |-> <<>>],
                [marker |-> FALSE, type |-> <<>>, post |-> <<" ","1","0","2"," ">>]},
         tl \in Tails}

DecodeFiles == BodyFiles \cup HeaderFiles \cup TailFiles \cup BadFiles

PulsFile == VE11CFile(TRUE, PULS, StdPost, <<tEmpty, t7, t5000, t7, t5003, t7>>,
                      <<TimeLine(LogStart, MDHTimeTag, v47),
                        TimeLine(LogStop, MDHTimeTag, v59)>>)

RespFile == VE11CFile(TRUE, RESP, StdPost, <<tEmpty, t7, t6000, t7>>, <<>>)

TriggerFile == VE11CFile(TRUE, TRIGGER, <<>>, <<t5000, t7, t5003>>,
                         <<TimeLine(LogStart, MDHTimeTag, v53)>>)

ExtFile == VE11CFile(TRUE, EXT, StdPost, <<>>, <<TimeLine(LogStop, MPCUTimeTag, v43)>>)

CoreFiles == {PulsFile, RespFile, TriggerFile, ExtFile, TextFile(<<NoMarkers>>)}

s_a_b == <<"a","/","b">>

s_sub == <<"s","u","b","-","0","1","_","t","a","s","k","-","x">>

\* a stem with suffixes in its middle
s_mid == <<"a","_","b","o","l","d",".","n","i","i","_","x">>

Stems == {<<>>, s_a_b, s_sub, s_mid}

\* the four suffixes, and 'gz' without its dot
Pieces == {sfx_gz, sfx_nii, sfx_bold, sfx_physio, <<"g","z">>}

RECURSIVE concat(_)
concat(pieces) == IF pieces = <<>> THEN <<>> ELSE Head(pieces) \o concat(Tail(pieces))

Prefixes == {st \o concat(ps) : st \in Stems, ps \in SeqsUpTo(Pieces, MaxPieces)}

\* 'sub-01_task-x_bold.nii.gz'
ExamplePrefix == s_sub \o sfx_bold \o sfx_nii \o sfx_gz

\* the orchestrator on batches of files
Init ==
    InitWith({[str |-> p] : p \in CoreFiles}
                 \cup {[list |-> fs] : fs \in SeqsUpTo(CoreFiles, MaxFiles)},
             {ExamplePrefix, s_a_b \o sfx_physio})

\* the orchestrator on output prefixes
InitPrefix ==
    InitWith({[list |-> <<PulsFile>>], [list |-> <<RespFile, TriggerFile>>],
              [str |-> TextFile(<<NoMarkers>>)]},
             Prefixes)

\* the decoder on single files
InitDecode ==
    InitWith({[list |-> <<p>>] : p \in DecodeFiles}, {ExamplePrefix})

(***************************************************************************)
(* Actions                                                                 *)
(***************************************************************************)

\* lines 81-85
pmu2bids_enter ==
    /\ pc = "enter"
    /\ physio_files' = IF "str" \in DOMAIN physio_files
                       THEN [list |-> <<physio_files.str>>]
                       ELSE physio_files
    /\ physio' = <<>>
    /\ f' = 1
    /\ pc' = "for_f"
    /\ UNCHANGED <<prefix_arg, bids_prefix, sv, tried, ret, mystr, saved, raised>>

\* line 90, lines 159-168: readpmu( f ) is called with no softwareVersion
call_readpmu ==
    /\ pc = "for_f"
    /\ f <= Len(physio_files.list)
    /\ IF version_accepted(None)
       THEN /\ pc' = "readpmu"
            /\ sv' = 1
            /\ tried' = <<>>
            /\ raised' = raised
       ELSE /\ pc' = "raised"
            /\ raised' = "TypeError"
            /\ UNCHANGED <<sv, tried>>
    /\ UNCHANGED <<physio_files, prefix_arg, bids_prefix, f, ret, physio, mystr, saved>>

\* lines 171-176: the attempt succeeds and readpmu returns its result
readpmu_return ==
    /\ pc = "readpmu"
    /\ sv <= Len(versionsToTest(None))
    /\ versionsToTest(None)[sv] = "VE11C"
    /\ LET r == readVE11Cpmu(physio_files.list[f])
       IN  /\ r.exc = None
           /\ ret' = r
    /\ tried' = Append(tried, versionsToTest(None)[sv])
    /\ pc' = "label"
    /\ UNCHANGED <<physio_files, prefix_arg, bids_prefix, f, sv, physio, mystr, saved, raised>>

\* lines 171-179: the loop goes on: the version has no reader, or the attempt
\* raised and the exception was caught; not caught, it leaves readpmu and pmu2bids
readpmu_except ==
    /\ pc = "readpmu"
    /\ sv <= Len(versionsToTest(None))
    /\ IF versionsToTest(None)[sv] # "VE11C"
       THEN /\ sv' = sv + 1
            /\ UNCHANGED <<pc, raised, tried>>
       ELSE LET r == readVE11Cpmu(physio_files.list[f])
            IN  /\ r.exc # None
                /\ tried' = Append(tried, versionsToTest(None)[sv])
                /\ IF caught(r.exc)
                   THEN /\ sv' = sv + 1
                        /\ UNCHANGED <<pc, raised>>
                   ELSE /\ pc' = "raised"
                        /\ raised' = r.exc
                        /\ sv' = sv
    /\ UNCHANGED <<physio_files, prefix_arg, bids_prefix, f, ret, physio, mystr, saved>>

\* a variant that gives the file up and goes on with the next one
readpmu_raise_skips_file ==
    /\ pc = "readpmu"
    /\ sv > Len(knownVersions)
    /\ pc' = "for_f"
    /\ f' = f + 1
    /\ UNCHANGED <<physio_files, prefix_arg, bids_prefix, sv, tried, ret, physio, mystr,
                   saved, raised>>

\* lines 181-183: no version read the file; the bare raise has no exception to
\* re-raise, which is a RuntimeError, and pmu2bids does not catch it
readpmu_raise ==
    /\ pc = "readpmu"
    /\ sv > Len(versionsToTest(None))
    /\ pc' = "raised"
    /\ raised' = "RuntimeError"
    /\ UNCHANGED <<physio_files, prefix_arg, bids_prefix, f, sv, tried, ret, physio, mystr, saved>>

\* lines 90-113: label the signal and append it
label_and_append ==
    /\ pc = "label"
    /\ LET physio_type   == ret.val[1]
           MDHTime       == ret.val[2]
           rate          == ret.val[3]
           physio_signal == ret.val[4]
       IN  physio' = append_signal(physio,
                        physiosignal(get_physio_label(physio_type), <<>>, rate,
                                     MDHTime[1], physio_signal))
    /\ f' = f + 1
    /\ pc' = "for_f"
    /\ UNCHANGED <<physio_files, prefix_arg, bids_prefix, sv, tried, ret, mystr, saved, raised>>

\* the loop of line 89 ends
files_done ==
    /\ pc = "for_f"
    /\ f > Len(physio_files.list)
    /\ pc' = "for_mystr"
    /\ mystr' = 1
    /\ UNCHANGED <<physio_files, prefix_arg, bids_prefix, f, sv, tried, ret, physio, saved, raised>>

\* lines 118-119, one pass of the loop
strip_one ==
    /\ pc = "for_mystr"
    /\ mystr <= Len(mystrs)
    /\ bids_prefix' = strip_suffix(bids_prefix, mystrs[mystr])
    /\ mystr' = mystr + 1
    /\ UNCHANGED <<physio_files, prefix_arg, pc, f, sv, tried, ret, physio, saved, raised>>

\* lines 122-123
save_with_trigger ==
    /\ pc = "for_mystr"
    /\ mystr > Len(mystrs)
    /\ has_trigger(physio)
    /\ saved' = Append(saved, [op |-> "save_to_bids_with_trigger",
                               prefix |-> bids_prefix, signals |-> physio])
    /\ pc' = "done"
    /\ UNCHANGED <<physio_files, prefix_arg, bids_prefix, f, sv, tried, ret, physio, mystr, raised>>

\* lines 124-125
save_plain ==
    /\ pc = "for_mystr"
    /\ mystr > Len(mystrs)
    /\ ~has_trigger(physio)
    /\ saved' = Append(saved, [op |-> "save_to_bids",
                               prefix |-> bids_prefix, signals |-> physio])
    /\ pc' = "done"
    /\ UNCHANGED <<physio_files, prefix_arg, bids_prefix, f, sv, tried, ret, physio, mystr, raised>>

Next ==
    \/ pmu2bids_enter
    \/ call_readpmu
    \/ readpmu_return
    \/ readpmu_except
    \/ readpmu_raise
    \/ label_and_append
    \/ files_done
    \/ strip_one
    \/ save_with_trigger
    \/ save_plain

Spec == Init /\ [][Next]_vars

SpecPrefix == InitPrefix /\ [][Next]_vars

SpecDecode == InitDecode /\ [][Next]_vars

(***************************************************************************)
(* What the files and prefixes are, read off the way they were put         *)
(* together: the yardstick the claims measure the program against          *)
(***************************************************************************)

\* the files as passed, and the one the loop of line 89 is at
files == files_of(physio_files)

cur == files[f]

IntTokens == {t7, t100, t200, t300, t999, t5000, t6000, t5003}

TokVal(t) ==
    CASE t = t7 -> 7 [] t = t100 -> 100 [] t = t200 -> 200 [] t = t300 -> 300
      [] t = t999 -> 999 [] t = t5000 -> 5000 [] t = t6000 -> 6000 [] t = t5003 -> 5003

IntVals == {v47, v59, v31, v43, v53}

ValOf(v) ==
    CASE v = v47 -> 47 [] v = v59 -> 59 [] v = v31 -> 31 [] v = v43 -> 43 [] v = v53 -> 53

\* the tokens of the sample segment of a VE11C file: the line is read without
\* its trailing spaces, and one leading empty token is dropped
SampleTokens(p) ==
    LET full == {n \in 1..Len(p.body) : p.body[n] # tEmpty}
        b    == IF full = {} THEN <<>> ELSE SubSeq(p.body, 1, Max(full))
    IN  IF b # <<>> /\ b[1] = tEmpty THEN Tail(b) ELSE b

AllIntegers(toks) == \A n \in 1..Len(toks) : toks[n] \in IntTokens

\* how many tokens come before the first 5003: all of them if there is none
CountBefore5003(toks) ==
    IF \E n \in 1..Len(toks) : toks[n] = t5003
    THEN Min({n \in 1..Len(toks) : toks[n] = t5003}) - 1
    ELSE Len(toks)

IsTimeLine(l, tag, sub) == l.tag = tag /\ l.sub = sub

\* a LogStart/LogStop line of either clock whose second token is missing or no integer
Malformed(l) ==
    /\ l.tag \in {MDHTimeTag, MPCUTimeTag}
    /\ l.sub \in {LogStart, LogStop}
    /\ l.val \notin IntVals

WellFormedTail(p) == \A n \in 1..Len(p.tail) : ~Malformed(p.tail[n])

\* the slot a tag and sub-tag fill: the value of the last such line, 0 without one
Slot(p, tag, sub) ==
    LET at == {n \in 1..Len(p.tail) : IsTimeLine(p.tail[n], tag, sub)}
    IN  IF at = {} THEN 0 ELSE ValOf(p.tail[Max(at)].val)

\* sub occurs in str
Occurs(str, sub) ==
    \E i \in 0..(Len(str) - Len(sub)) : \A k \in 1..Len(sub) : str[i + k] = sub[k]

\* one suffix check: `after` is `before` without the suffix it ends with, or
\* `before` itself when it does not end with it
Cut(before, after, suffix) ==
    \/ before = after \o suffix
    \/ /\ after = before
       /\ \A k \in 0..Len(before) : before # SubSeq(before, 1, k) \o suffix

AfterCut(before, suffix) ==
    CHOOSE after \in {SubSeq(before, 1, k) : k \in 0..Len(before)} :
        Cut(before, after, suffix)

\* the prefix after the first n checks, in the order .gz, .nii, _bold, _physio
AfterChecks(prefix, n) ==
    LET x1 == AfterCut(prefix, sfx_gz)
        x2 == AfterCut(x1, sfx_nii)
        x3 == AfterCut(x2, sfx_bold)
        x4 == AfterCut(x3, sfx_physio)
    IN  CASE n = 0 -> prefix [] n = 1 -> x1 [] n = 2 -> x2 [] n = 3 -> x3 [] n = 4 -> x4

\* a file a decode succeeds on: two regions in its first line, integer sample
\* tokens, well-formed time lines
Readable(p) == p.form = "VE11C" /\ AllIntegers(SampleTokens(p)) /\ WellFormedTail(p)

s_a_b_physio_bold == s_a_b \o sfx_physio \o sfx_bold

s_a_b_physio == s_a_b \o sfx_physio

(***************************************************************************)
(* Claims                                                                  *)
(***************************************************************************)

\* C1: the prefix handed to the save operation is the output prefix after the
\* four suffix checks '.gz', '.nii', '_bold', '_physio', each applied once, in
\* that order, each removing its suffix only from the end of the current
\* string; 'sub-01_task-x_bold.nii.gz' gives 'sub-01_task-x' and
\* 'a/b_physio.nii.gz' gives 'a/b'; nothing is removed from the middle.
C1_SuffixChecksInOrder ==
    /\ pc = "for_mystr" => bids_prefix = AfterChecks(prefix_arg, mystr - 1)
    /\ \A n \in 1..Len(saved) :
          /\ saved[n].prefix = AfterChecks(prefix_arg, 4)
          /\ prefix_arg = ExamplePrefix => saved[n].prefix = s_sub
          /\ prefix_arg = s_a_b \o sfx_physio \o sfx_nii \o sfx_gz
                 => saved[n].prefix = s_a_b
          /\ \E k \in 0..Len(prefix_arg) : saved[n].prefix = SubSeq(prefix_arg, 1, k)
          /\ Occurs(prefix_arg, s_mid) => Occurs(saved[n].prefix, s_mid)

C1_Witness ==
    /\ saved # <<>>
    /\ prefix_arg = s_mid \o sfx_bold \o sfx_nii \o sfx_gz
    /\ saved[1].prefix = s_mid

\* C2, as amended: given the output prefix 'a/b_physio_bold', the prefix handed
\* to the save operation is 'a/b': the third check strips '_bold', and the
\* fourth strips the '_physio' that has become the ending.
C2_BoldThenPhysioStripped ==
    prefix_arg = s_a_b_physio_bold =>
        /\ pc = "for_mystr" /\ mystr = 4 => bids_prefix = s_a_b_physio
        /\ pc = "for_mystr" /\ mystr = 5 => bids_prefix = s_a_b
        /\ \A n \in 1..Len(saved) : saved[n].prefix = s_a_b

C2_Witness ==
    /\ saved # <<>>
    /\ prefix_arg = s_a_b_physio_bold
    /\ saved[1].prefix = s_a_b

\* C2, as claimed: given 'a/b_physio_bold' the save operation gets 'a/b_physio'.
C2_OnlyBoldStripped ==
    prefix_arg = s_a_b_physio_bold =>
        \A n \in 1..Len(saved) : saved[n].prefix = s_a_b_physio

\* C3: when all n >= 1 files decode, one save operation is invoked, once, and
\* only after all n files were decoded and appended; the signal set then holds
\* n signals, the i-th built from the i-th file; and the trigger-aware
\* operation is the one invoked iff some label equals 'trigger'.
C3_OneSaveAfterAllFiles ==
    (Len(files) >= 1 /\ \A n \in 1..Len(files) : Readable(files[n])) =>
        /\ pc # "raised" /\ raised = None
        /\ Len(saved) <= 1
        /\ pc = "done" <=> Len(saved) = 1
        /\ \A n \in 1..Len(saved) :
              LET call == saved[n]
              IN  /\ f = Len(files) + 1
                  /\ call.signals = physio
                  /\ Len(call.signals) = Len(files)
                  /\ \A i \in 1..Len(files) :
                        LET rec == readVE11Cpmu(files[i]).val
                        IN  /\ readVE11Cpmu(files[i]).exc = None
                            /\ call.signals[i].signal = rec[4]
                            /\ call.signals[i].t_start = rec[2][1]
                            /\ call.signals[i].samples_per_second = rec[3]
                            /\ call.signals[i].units = <<>>
                            /\ rec[1] = PULS => call.signals[i].label = cardiac
                            /\ rec[1] = RESP => call.signals[i].label = respiratory
                            /\ rec[1] = TRIGGER => call.signals[i].label = trigger
                            /\ rec[1] = EXT => call.signals[i].label = EXT
                  /\ call.op \in {"save_to_bids", "save_to_bids_with_trigger"}
                  /\ call.op = "save_to_bids_with_trigger"
                        <=> \E i \in 1..Len(call.signals) :
                                call.signals[i].label = trigger

C3_Witness ==
    /\ pc = "done"
    /\ files = <<PulsFile, TriggerFile>>
    /\ Len(saved) = 1
    /\ saved[1].op = "save_to_bids_with_trigger"
    /\ Len(saved[1].signals) = 2
    /\ saved[1].signals[1].label = cardiac
    /\ saved[1].signals[2].label = trigger

\* C4: if the decode of any file of the list fails, the failure leaves
\* pmu2bids and neither save operation is ever invoked, whichever place the
\* failing file has and however many files before it decoded.
C4_FailedDecodeAborts ==
    LET failing == {n \in 1..Len(files) : ~Readable(files[n])}
    IN  failing # {} =>
            /\ saved = <<>>
            /\ pc \notin {"for_mystr", "done"}
            /\ f <= Min(failing)
            /\ Len(physio) < Min(failing)
            /\ pc = "raised" => /\ raised # None
                                /\ f = Min(failing)
                                /\ readVE11Cpmu(files[f]).exc # None
                                /\ Len(physio) = f - 1

C4_Witness ==
    /\ pc = "raised"
    /\ raised # None
    /\ f = 3
    /\ Len(physio) = 2
    /\ saved = <<>>

\* C5: readpmu attempts the known versions in their order; an exception of
\* any kind inside an attempt only ends that attempt; the first attempt that
\* succeeds gives the record returned, with no later attempt; when every
\* attempt fails readpmu raises and returns no record; so it does for a file
\* without header markers, with an empty first line, or empty.
C5_AttemptsThenUnrecognized ==
    /\ tried = SubSeq(knownVersions, 1, Len(tried))
    /\ pc = "label" =>
          /\ tried = SubSeq(knownVersions, 1, sv)
          /\ ret.exc = None
          /\ cur.form = "VE11C"
    /\ pc \in {"readpmu", "raised"} /\ f = 1 => ret = Return(<<>>)
    /\ pc = "raised" =>
          /\ raised = "RuntimeError"
          /\ tried = knownVersions
          /\ ~Readable(cur)
    /\ (f >= 1 /\ f <= Len(files) /\ cur.form # "VE11C") =>
          pc \in {"for_f", "readpmu", "raised"}

C5_Witness ==
    /\ pc = "raised"
    /\ raised = "RuntimeError"
    /\ files = << TextFile(<< <<>> >>) >>
    /\ tried = knownVersions
    /\ ret = Return(<<>>)

\* C6: in the samples readVE11Cpmu returns no element is 5000 or 6000; where
\* the truncated raw stream held 5000 or 6000 the sample is NaN; elsewhere it
\* is the raw integer; length and order are those of the truncated raw stream.
C6_SentinelsBecomeNaN ==
    pc = "label" =>
        LET samples == ret.val[4]
            toks    == SampleTokens(cur)
            kept    == SubSeq(toks, 1, CountBefore5003(toks))
        IN  /\ \A n \in 1..Len(samples) :
                  samples[n].nan \/ samples[n].v \notin {5000, 6000}
            /\ Len(samples) = Len(kept)
            /\ \A n \in 1..Len(kept) :
                  IF kept[n] \in {t5000, t6000}
                  THEN samples[n] = NaN
                  ELSE samples[n] = Num(TokVal(kept[n]))

C6_Witness ==
    /\ pc = "label"
    /\ cur.body = <<t7, t6000, t5000>>
    /\ ret.val[4] = <<Num(7), NaN, NaN>>

\* C7: the label of a signal is 'cardiac' if the decoded type contains 'PULS',
\* else 'respiratory' if it contains 'RESP', else 'trigger' if it contains
\* 'TRIGGER', else the type itself; a type with both 'PULS' and 'TRIGGER' is
\* 'cardiac'.
C7_FirstMatchingLabel ==
    (physio # <<>> /\ pc # "label") =>
        LET type  == ret.val[1]
            label == physio[Len(physio)].label
        IN  /\ Occurs(type, PULS) => label = cardiac
            /\ ~Occurs(type, PULS) /\ Occurs(type, RESP) => label = respiratory
            /\ ~Occurs(type, PULS) /\ ~Occurs(type, RESP) /\ Occurs(type, TRIGGER)
                   => label = trigger
            /\ ~Occurs(type, PULS) /\ ~Occurs(type, RESP) /\ ~Occurs(type, TRIGGER)
                   => label = type
            /\ Occurs(type, PULS) /\ Occurs(type, TRIGGER) => label = cardiac

C7_Witness ==
    /\ physio # <<>>
    /\ pc = "for_f"
    /\ ret.val[1] = PULSTRIGGER
    /\ physio[1].label = cardiac

\* C8: without the 'LOGVERSION_<type>' marker in the first region readVE11Cpmu
\* does not fail for that: the type is 'Unknown', and samples, time window and
\* sampling rate are those of the same file with a marker; with the marker the
\* type is the token that follows 'LOGVERSION_'.
C8_MissingMarkerIsUnknown ==
    (pc \in {"label", "raised"} /\ cur.form = "VE11C") =>
        LET twin == readVE11Cpmu([cur EXCEPT !.marker = TRUE, !.type = PULS])
        IN  /\ cur.marker /\ pc = "label" => ret.val[1] = cur.type
            /\ ~cur.marker =>
                  /\ pc = "label" <=> twin.exc = None
                  /\ pc = "label" =>
                        /\ ret.val[1] = Unknown
                        /\ twin.val[1] = PULS
                        /\ ret.val[2] = twin.val[2]
                        /\ ret.val[3] = twin.val[3]
                        /\ ret.val[4] = twin.val[4]

C8_Witness ==
    /\ pc = "label"
    /\ ~cur.marker
    /\ ret.val[1] = Unknown
    /\ ret.val[2] = <<47, 59>>
    /\ ret.val[4] = <<Num(7)>>

\* C9: a decode succeeds when the tokens of the sample segment are integers,
\* with or without a 5003 among them; the samples are the tokens before the
\* first 5003, the 5003 and what follows dropped, or all tokens when there is
\* no 5003, none for an empty segment; '100 200 5000 300 5003 999' gives
\* [100, 200, NaN, 300] at sampling rate 400.
C9_SamplesEndAtFirst5003 ==
    (pc \in {"label", "raised"} /\ cur.form = "VE11C") =>
        LET toks == SampleTokens(cur)
        IN  /\ Readable(cur) => pc = "label"
            /\ pc = "label" =>
                  /\ AllIntegers(toks)
                  /\ Len(ret.val[4]) = CountBefore5003(toks)
                  /\ \A n \in 1..Len(ret.val[4]) :
                        /\ toks[n] # t5003
                        /\ ~ret.val[4][n].nan => ret.val[4][n].v = TokVal(toks[n])
                  /\ ret.val[3] = 400
                  /\ toks = <<>> => ret.val[4] = <<>>
                  /\ cur.body = ExampleBody =>
                        ret.val[4] = <<Num(100), Num(200), NaN, Num(300)>>

C9_Witness ==
    /\ pc = "label"
    /\ cur.body = <<tEmpty, t7, t5000>>
    /\ Len(ret.val[4]) = 2

\* C10: the time window readVE11Cpmu returns comes from the MDHTime lines
\* after the first line alone: its start is the second token of the LogStart
\* line, its stop that of the LogStop line, 0 without such a line; other lines
\* and the MPCUTime lines leave it unchanged; pmu2bids takes the start as the
\* start time of the signal.
C10_WindowFromMDHTimeLines ==
    /\ (pc = "label" /\ cur.form = "VE11C") =>
          /\ ret.val[2] = <<Slot(cur, MDHTimeTag, LogStart), Slot(cur, MDHTimeTag, LogStop)>>
          /\ cur.tail = <<>> => ret.val[2] = <<0, 0>>
          /\ ret.val[2] =
                readVE11Cpmu([cur EXCEPT !.tail =
                    SelectSeq(cur.tail, LAMBDA l : l.tag # MPCUTimeTag)]).val[2]
    /\ (physio # <<>> /\ pc # "label" /\ files[Len(physio)].form = "VE11C") =>
          physio[Len(physio)].t_start = Slot(files[Len(physio)], MDHTimeTag, LogStart)

C10_Witness ==
    /\ pc = "for_f"
    /\ physio # <<>>
    /\ files[1].tail = <<TimeLine(LogStart, MPCUTimeTag, v31),
                         TimeLine(LogStart, MDHTimeTag, v47)>>
    /\ ret.val[2] = <<47, 0>>
    /\ physio[1].t_start = 47

====
